---- MODULE Spec2Model ----
(***************************************************************************)
(* Model of server.js of preblocking-csv-generator: the date normaliser    *)
(* validateAndFormatDate, the job processCSV (parse, group, partition,     *)
(* write) and the partitioner generateBatches.                             *)
(*                                                                         *)
(* Strings are TLA+ strings; a character is a string of length 1.  The     *)
(* input alphabet is the digits, "/", "-", ",", " ", the quote characters  *)
(* and lower-case letters, none of which forms a hexadecimal, exponent or  *)
(* Infinity literal: on that alphabet StringToNumber is what ToNumber      *)
(* below computes.  A Date is its local day number (days since             *)
(* 1970-01-01); the time of day is always local midnight in this program,  *)
(* so the constructor Date(y, m, d) followed by getFullYear / getMonth /   *)
(* getDate does not depend on the time zone.  Date parsing of a string is  *)
(* the one of V8 (server.js is a Node program).                            *)
(***************************************************************************)
EXTENDS Integers, Sequences, FiniteSets, TLC

(***************************************************************************)
(* Bounds of the model and constants of the program.                       *)
(***************************************************************************)
\* longest enumerated job of the exhaustive family of property sequences
MaxRows == 4
\* the wide jobs have MaxBatchSize + 1 .. MaxBatchSize + WideExtra rows
WideExtra == 2
\* server.js:237  currentBatch.length < 250
MaxBatchSize == 250
\* server.js:242  (propertyCountInBatch[propertyId] || 0) < 2
MaxPerProperty == 2
\* README.md:16  "Maximum 1000 bookings per batch"
ReadmeMaxBatchSize == 1000
\* README.md:17  "Maximum 2 bookings per property per batch"
ReadmeMaxPerProperty == 2
\* ECMAScript TimeClip: |t| <= 8.64e15 ms, that is 100,000,000 days
MaxDateDays == 100000000

(***************************************************************************)
(* Strings (String.prototype.trim, replace, includes, split, padStart).    *)
(***************************************************************************)
CharAt(s, k) == SubSeq(s, k, k)

DigitChars == {"0", "1", "2", "3", "4", "5", "6", "7", "8", "9"}

DigitVal(c) ==
    CASE c = "0" -> 0 [] c = "1" -> 1 [] c = "2" -> 2 [] c = "3" -> 3
      [] c = "4" -> 4 [] c = "5" -> 5 [] c = "6" -> 6 [] c = "7" -> 7
      [] c = "8" -> 8 [] c = "9" -> 9

IsDigits(s) == \A k \in 1..Len(s) : CharAt(s, k) \in DigitChars

RECURSIVE DecimalValue(_)
DecimalValue(s) ==
    IF s = "" THEN 0
    ELSE 10 * DecimalValue(SubSeq(s, 1, Len(s) - 1)) + DigitVal(CharAt(s, Len(s)))

WhiteSpace == {" "}

RECURSIVE TrimStart(_)
TrimStart(s) ==
    IF s # "" /\ CharAt(s, 1) \in WhiteSpace THEN TrimStart(SubSeq(s, 2, Len(s))) ELSE s

RECURSIVE TrimEnd(_)
TrimEnd(s) ==
    IF s # "" /\ CharAt(s, Len(s)) \in WhiteSpace
    THEN TrimEnd(SubSeq(s, 1, Len(s) - 1)) ELSE s

\* String.prototype.trim
Trim(s) == TrimEnd(TrimStart(s))

RECURSIVE RemoveChars(_, _)
\* s.replace(/[chars]/g, '')
RemoveChars(s, chars) ==
    IF s = "" THEN ""
    ELSE (IF CharAt(s, 1) \in chars THEN "" ELSE CharAt(s, 1))
            \o RemoveChars(SubSeq(s, 2, Len(s)), chars)

\* String.prototype.includes, for a one-character argument
Includes(s, c) == \E k \in 1..Len(s) : CharAt(s, k) = c

RECURSIVE SplitFrom(_, _, _)
SplitFrom(s, c, cur) ==
    IF s = "" THEN <<cur>>
    ELSE IF CharAt(s, 1) = c THEN <<cur>> \o SplitFrom(SubSeq(s, 2, Len(s)), c, "")
    ELSE SplitFrom(SubSeq(s, 2, Len(s)), c, cur \o CharAt(s, 1))

\* String.prototype.split, for a one-character separator
Split(s, c) == SplitFrom(s, c, "")

\* String(n).padStart(2, '0')
PadStart2(n) == IF Len(ToString(n)) < 2 THEN "0" \o ToString(n) ELSE ToString(n)

(***************************************************************************)
(* Numbers: a Number is [nan, v]; NaN has nan = TRUE.                      *)
(***************************************************************************)
Num(v) == [nan |-> FALSE, v |-> v]

NaN == [nan |-> TRUE, v |-> 0]

\* ToNumber of a string (StringToNumber on the model's alphabet)
ToNumber(s) ==
    LET t == Trim(s)
    IN  IF t = "" THEN Num(0)
        ELSE IF IsDigits(t) THEN Num(DecimalValue(t))
        ELSE IF Len(t) > 1 /\ CharAt(t, 1) = "-" /\ IsDigits(SubSeq(t, 2, Len(t)))
             THEN Num(0 - DecimalValue(SubSeq(t, 2, Len(t))))
        ELSE IF Len(t) > 1 /\ CharAt(t, 1) = "+" /\ IsDigits(SubSeq(t, 2, Len(t)))
             THEN Num(DecimalValue(SubSeq(t, 2, Len(t))))
        ELSE NaN

\* x - 1 of the code's parts[k] - 1
MinusOne(x) == IF x.nan THEN NaN ELSE Num(x.v - 1)

(***************************************************************************)
(* Dates (the built-in Date of the engine).                                *)
(***************************************************************************)
\* an Invalid Date (getTime() is NaN)
InvalidDate == [valid |-> FALSE, day |-> 0]

\* day number of the civil date y-m-d, m in 1..12 (ECMAScript MakeDay)
DaysFromCivil(y, m, d) ==
    LET yy  == IF m <= 2 THEN y - 1 ELSE y
        era == yy \div 400
        yoe == yy - era * 400
        mp  == IF m > 2 THEN m - 3 ELSE m + 9
        doy == (153 * mp + 2) \div 5 + d - 1
        doe == yoe * 365 + yoe \div 4 - yoe \div 100 + doy
    IN  era * 146097 + doe - 719468

\* the civil date of a day number (YearFromTime, MonthFromTime, DateFromTime)
CivilFromDays(z) ==
    LET zz  == z + 719468
        era == zz \div 146097
        doe == zz - era * 146097
        yoe == (doe - doe \div 1460 + doe \div 36524 - doe \div 146096) \div 365
        doy == doe - (365 * yoe + yoe \div 4 - yoe \div 100)
        mp  == (5 * doy + 2) \div 153
        d   == doy - (153 * mp + 2) \div 5 + 1
        m   == IF mp < 10 THEN mp + 3 ELSE mp - 9
    IN  [year |-> yoe + era * 400 + (IF m <= 2 THEN 1 ELSE 0), month |-> m, date |-> d]

\* new Date(year, monthIndex, day) on Numbers: a NaN argument and a time out
\* of range give an Invalid Date, a year 0..99 is 1900 + year, and a month or
\* a day out of range carries over into the next months and years
NewDate(year, monthIndex, day) ==
    IF year.nan \/ monthIndex.nan \/ day.nan THEN InvalidDate
    ELSE LET yr == IF year.v >= 0 /\ year.v <= 99 THEN 1900 + year.v ELSE year.v
             ym == yr + monthIndex.v \div 12
             mn == monthIndex.v % 12
             dn == DaysFromCivil(ym, mn + 1, 1) + day.v - 1
         IN  IF dn > MaxDateDays \/ dn < 0 - MaxDateDays THEN InvalidDate
             ELSE [valid |-> TRUE, day |-> dn]

\* /^\d{4}-\d{2}-\d{2}$/.test(s)
IsoFormat(s) ==
    /\ Len(s) = 10
    /\ CharAt(s, 5) = "-"
    /\ CharAt(s, 8) = "-"
    /\ IsDigits(SubSeq(s, 1, 4))
    /\ IsDigits(SubSeq(s, 6, 7))
    /\ IsDigits(SubSeq(s, 9, 10))

\* new Date(s) for a string s of the shape YYYY-MM-DD: V8 reads it as an
\* ISO date when the month is 01..12 and the day 01..31 (a day past the end
\* of the month carries over into the next month), and gives an Invalid Date
\* otherwise
NewDateIso(s) ==
    LET y == DecimalValue(SubSeq(s, 1, 4))
        m == DecimalValue(SubSeq(s, 6, 7))
        d == DecimalValue(SubSeq(s, 9, 10))
    IN  IF m >= 1 /\ m <= 12 /\ d >= 1 /\ d <= 31
        THEN [valid |-> TRUE, day |-> DaysFromCivil(y, m, 1) + d - 1]
        ELSE InvalidDate

\* `${year}-${month}-${day}` of server.js:106-110
FormatDate(date) ==
    LET c == CivilFromDays(date.day)
    IN  ToString(c.year) \o "-" \o PadStart2(c.month) \o "-" \o PadStart2(c.date)

(***************************************************************************)
(* validateAndFormatDate (server.js:53-111).  The result is                *)
(* [ok, value, kind]: the returned string, or the kind of the Error thrown *)
(* ("empty": Empty date found, "invalid": Invalid date format, "unable":   *)
(* Unable to parse date format) with the cleaned value of its message.     *)
(***************************************************************************)
Returned(s) == [ok |-> TRUE, value |-> s, kind |-> "none"]

Thrown(kind, s) == [ok |-> FALSE, value |-> s, kind |-> kind]

\* server.js:59  dateStr.replace(/['"]/g, '').trim()
CleanDate(dateStr) == Trim(RemoveChars(dateStr, {"'", "\""}))

\* server.js:80-84 and 93-97: day-first, and month-first when the day-first
\* Date is invalid
DayFirstThenMonthFirst(parts) ==
    LET dayFirst == NewDate(ToNumber(parts[3]), MinusOne(ToNumber(parts[2])),
                            ToNumber(parts[1]))
    IN  IF ~dayFirst.valid
        THEN NewDate(ToNumber(parts[3]), MinusOne(ToNumber(parts[1])),
                     ToNumber(parts[2]))
        ELSE dayFirst

\* server.js:73-99: the Date of the alternate layouts; found = FALSE is the
\* code's date left undefined
AlternateLayouts(cleanDate) ==
    IF Includes(cleanDate, "/")
    THEN LET parts == Split(cleanDate, "/")
         IN  IF Len(parts) = 3
             THEN [found |-> TRUE, date |-> DayFirstThenMonthFirst(parts)]
             ELSE [found |-> FALSE, date |-> InvalidDate]
    ELSE IF Includes(cleanDate, "-") /\ ~IsoFormat(cleanDate)
    THEN LET parts == Split(cleanDate, "-")
         IN  IF Len(parts) = 3 /\ Len(parts[1]) <= 2
             THEN [found |-> TRUE, date |-> DayFirstThenMonthFirst(parts)]
             ELSE [found |-> FALSE, date |-> InvalidDate]
    ELSE [found |-> FALSE, date |-> InvalidDate]

validateAndFormatDate(dateStr) ==
    IF dateStr = "" \/ Trim(dateStr) = "" THEN Thrown("empty", "")
    ELSE LET cleanDate == CleanDate(dateStr)
         IN  IF IsoFormat(cleanDate)
             THEN IF ~NewDateIso(cleanDate).valid
                  THEN Thrown("invalid", cleanDate)
                  ELSE Returned(cleanDate)
             ELSE LET alt == AlternateLayouts(cleanDate)
                  IN  IF ~alt.found \/ ~alt.date.valid
                      THEN Thrown("unable", cleanDate)
                      ELSE Returned(FormatDate(alt.date))

(***************************************************************************)
(* Objects used as maps (propertyBookings, propertyCountInBatch).          *)
(***************************************************************************)
\* names every plain object inherits from Object.prototype: obj[name] is a
\* truthy value that is no array
ObjectPrototypeMembers ==
    {"constructor", "toString", "toLocaleString", "valueOf", "hasOwnProperty",
     "isPrototypeOf", "propertyIsEnumerable", "__proto__"}

\* an array index: a canonical decimal numeral (model keys have at most 9 digits)
IsArrayIndex(key) ==
    /\ key # ""
    /\ Len(key) <= 9
    /\ IsDigits(key)
    /\ (key = "0" \/ CharAt(key, 1) # "0")

\* the own keys of an object whose entries were created in the order of seq
OwnKeys(entries) == {entries[k].key : k \in 1..Len(entries)}

\* obj[key] for an own key
Lookup(entries, key) ==
    LET k == CHOOSE k \in 1..Len(entries) : entries[k].key = key
    IN  entries[k].bookings

RECURSIVE AscendingIndexKeys(_)
\* the array-index keys of a set, in ascending numeric order
AscendingIndexKeys(keys) ==
    IF keys = {} THEN <<>>
    ELSE LET least == CHOOSE a \in keys :
                         \A b \in keys : DecimalValue(a) <= DecimalValue(b)
         IN  <<least>> \o AscendingIndexKeys(keys \ {least})

\* a changed ObjectEntries: every key in the order of its creation (a Map)
ObjectEntriesInCreationOrder(entries) == entries

\* Object.entries(obj): the array-index keys in ascending numeric order, then
\* the other keys in the order of their creation
ObjectEntries(entries) ==
    LET indexKeys == {key \in OwnKeys(entries) : IsArrayIndex(key)}
        sorted    == AscendingIndexKeys(indexKeys)
    IN  [k \in 1..Len(sorted) |-> [key |-> sorted[k], bookings |-> Lookup(entries, sorted[k])]]
           \o SelectSeq(entries, LAMBDA e : ~IsArrayIndex(e.key))

\* (counts[key] || 0) for an object that holds numbers
CountOf(counts, key) == IF key \in DOMAIN counts THEN counts[key] ELSE 0

\* counts[key] = (counts[key] || 0) + 1
Increment(counts, key) ==
    [k \in DOMAIN counts \cup {key} |-> IF k = key THEN CountOf(counts, key) + 1 ELSE counts[k]]

RECURSIVE Join(_, _)
\* Array.prototype.join
Join(cols, sep) ==
    IF cols = <<>> THEN ""
    ELSE IF Len(cols) = 1 THEN cols[1]
    ELSE cols[1] \o sep \o Join(Tail(cols), sep)

\* Array.prototype.reverse
Reverse(seq) == [k \in 1..Len(seq) |-> seq[Len(seq) + 1 - k]]

\* array.splice(idx, 1) for a 0-based idx; an idx past the end removes nothing
Splice(array, idx) ==
    IF idx < Len(array)
    THEN SubSeq(array, 1, idx) \o SubSeq(array, idx + 2, Len(array))
    ELSE array

RECURSIVE SpliceEach(_, _)
\* indices.forEach(idx => array.splice(idx, 1))
SpliceEach(array, indices) ==
    IF indices = <<>> THEN array
    ELSE SpliceEach(Splice(array, Head(indices)), Tail(indices))

(***************************************************************************)
(* The jobs checked: the data lines of the uploaded file (lines.slice(1)). *)
(***************************************************************************)
\* lines[0] of the file
Header == "property_id,checkin,checkout"

ValidCheckin == "2025-12-11"

ValidCheckout == "2025-12-12"

\* a data line of three columns
Line(propertyId, checkin, checkout) == propertyId \o "," \o checkin \o "," \o checkout

\* Property ids: two array-index keys whose numeric and textual orders differ,
\* and two other keys.
PropertyIds == {"9", "10", "b", "a"}

\* every sequence of at most MaxRows bookings over PropertyIds, dates valid
PropertyJobs ==
    UNION {[1..n -> {Line(p, ValidCheckin, ValidCheckout) : p \in PropertyIds}] : n \in 0..MaxRows}

\* n bookings over the properties 1..k, booking j of property ((j-1) mod k) + 1
WideJob(n, k) ==
    [j \in 1..n |-> Line(ToString(((j - 1) % k) + 1), ValidCheckin, ValidCheckout)]

\* jobs larger than a batch: every booking of another property, and as many
\* properties as fill a batch with MaxPerProperty bookings each, plus one
WideJobs ==
    {WideJob(n, k) : n \in (MaxBatchSize + 1)..(MaxBatchSize + WideExtra),
                     k \in {MaxBatchSize + WideExtra, MaxBatchSize \div MaxPerProperty + 1}}

\* the bookings of one property only, enough of them for three batches and more
SamePropertyJobs ==
    {[j \in 1..n |-> Line("a", ValidCheckin, ValidCheckout)] :
        n \in (MaxRows + 1)..(MaxRows + MaxPerProperty + 1)}

DayMonthParts == {"0", "1", "02", "11", "12", "13", "25", "29", "30", "31", "32"}

YearParts == {"2025", "2024", "25", "100"}

IsoShaped ==
    {y \o "-" \o m \o "-" \o d :
        y \in {"2025", "2024"},
        m \in {"00", "01", "02", "04", "12", "13"},
        d \in {"00", "01", "28", "29", "30", "31", "32"}}

ThreeParts ==
    {a \o sep \o b \o sep \o y :
        a \in DayMonthParts, b \in DayMonthParts, y \in YearParts, sep \in {"/", "-"}}

OtherValues ==
    {"", " ", "  ", "''", "abc", "'2025-12-11'", "\"2025-12-11\"", " 2025-12-11 ",
     "2025/12/11", "11/12", "11/12/2025/1", "11//2025", "11/a/2025", "a/12/2025",
     "11/12/a", "11/12/-5", "11/12/12345", "2025-1-5", "1-2", "111-12-2025",
     "11-12-2025 ", "20251211", "2025-12-1a"}

DateValues == IsoShaped \cup ThreeParts \cup OtherValues

\* one booking with any check-in or any check-out value
DateJobs ==
    {<<Line("9", v, ValidCheckout)>> : v \in DateValues}
        \cup {<<Line("9", ValidCheckin, v)>> : v \in DateValues}

\* lines of a job of several rows: valid, short, and bad in either field
MixedLines ==
    {Line("9", ValidCheckin, ValidCheckout), Line("a", "11/12/2025", "12-12-2025"),
     Line("9", "", ValidCheckout), Line("9", ValidCheckin, " "),
     Line("a", "2025-13-01", ""), Line("9", "13/13/2025", "2025-02-30"),
     Line("9", "1/2/100", ValidCheckout), Line("a", "abc", "abc"),
     "9", "9,abc", "", Line("9", ValidCheckin, ValidCheckout) \o ",1,x"}

MixedJobs == [1..2 -> MixedLines]

\* jobs with a property id that names a member of Object.prototype
PrototypeJobs ==
    UNION {[1..n -> {Line(p, ValidCheckin, ValidCheckout) : p \in {"9", "constructor"}}] : n \in 1..2}

Jobs == PropertyJobs \cup SamePropertyJobs \cup WideJobs \cup DateJobs \cup MixedJobs \cup PrototypeJobs

(***************************************************************************)
(* The state of one job: processCSV and, inside it, generateBatches.       *)
(***************************************************************************)
VARIABLES
    rows,                  \* the data lines
    pc,                    \* "parse" "group" "while" "scan" "write" "done" "rejected"
    index,                 \* the index of the running map / forEach callback
    parsedRows,            \* the rows mapped so far, each [line, cols]
    propertyBookings,      \* the entries [key, bookings] in creation order
    allBookings,           \* the pool of generateBatches
    batches,
    currentBatch,
    propertyCountInBatch,
    usedIndices,
    i,                     \* the scan index of the for loop
    batchFiles,            \* the batch descriptions of the result
    files,                 \* the files written into the job's batch directory
    error,                 \* the Error the promise was rejected with
    summary                \* the summary of the result

vars == <<rows, pc, index, parsedRows, propertyBookings, allBookings, batches,
          currentBatch, propertyCountInBatch, usedIndices, i, batchFiles, files,
          error, summary>>

NoCounts == [k \in {} |-> 0]

NoError == [kind |-> "none", row |-> 0, field |-> "", value |-> ""]

NoSummary == [totalBatches |-> 0 - 1, totalBookings |-> 0 - 1, uniqueProperties |-> 0 - 1]

Init ==
    /\ rows \in Jobs
    /\ pc = "parse"
    /\ index = 0
    /\ parsedRows = <<>>
    /\ propertyBookings = <<>>
    /\ allBookings = <<>>
    /\ batches = <<>>
    /\ currentBatch = <<>>
    /\ propertyCountInBatch = NoCounts
    /\ usedIndices = <<>>
    /\ i = 0
    /\ batchFiles = <<>>
    /\ files = <<>>
    /\ error = NoError
    /\ summary = NoSummary

\* `Row ${index + 2}` of server.js:132-133
RowNumber(idx) == idx + 2

\* the catch of server.js:213-216: the promise is rejected with the Error
Reject(kind, row, field, value) ==
    /\ pc' = "rejected"
    /\ error' = [kind |-> kind, row |-> row, field |-> field, value |-> value]

\* server.js:126-137: the map callback on rows[index]
ParseRow ==
    /\ pc = "parse"
    /\ index < Len(rows)
    /\ LET columns  == Split(rows[index + 1], ",")
           checkin  == validateAndFormatDate(columns[2])
           checkout == validateAndFormatDate(columns[3])
       IN  IF Len(columns) > 2 /\ ~checkin.ok
           THEN /\ Reject(checkin.kind, RowNumber(index), "checkin", checkin.value)
                /\ UNCHANGED <<index, parsedRows>>
           ELSE IF Len(columns) > 2 /\ ~checkout.ok
           THEN /\ Reject(checkout.kind, RowNumber(index), "checkout", checkout.value)
                /\ UNCHANGED <<index, parsedRows>>
           ELSE /\ parsedRows' = Append(parsedRows,
                       [line |-> index + 1,
                        cols |-> IF Len(columns) > 2
                                 THEN [columns EXCEPT ![2] = checkin.value,
                                                      ![3] = checkout.value]
                                 ELSE columns])
                /\ index' = index + 1
                /\ UNCHANGED <<pc, error>>
    /\ UNCHANGED <<rows, propertyBookings, allBookings, batches, currentBatch,
                   propertyCountInBatch, usedIndices, i, batchFiles, files, summary>>

\* server.js:137-141: the map is over, the grouping starts
StartGroup ==
    /\ pc = "parse"
    /\ index >= Len(rows)
    /\ pc' = "group"
    /\ index' = 0
    /\ UNCHANGED <<rows, parsedRows, propertyBookings, allBookings, batches,
                   currentBatch, propertyCountInBatch, usedIndices, i, batchFiles,
                   files, error, summary>>

\* a changed PushBooking: unshift in place of push
PushBookingFront(bookings, row) == <<row>> \o bookings

\* server.js:146  propertyBookings[propertyId].push(row)
PushBooking(bookings, row) == Append(bookings, row)

\* server.js:141-147: the forEach callback on parsedRows[index]
GroupRow ==
    /\ pc = "group"
    /\ index < Len(parsedRows)
    /\ LET row        == parsedRows[index + 1]
           propertyId == row.cols[1]
       IN  IF propertyId \notin OwnKeys(propertyBookings)
              /\ propertyId \in ObjectPrototypeMembers
           THEN \* the inherited member is truthy and has no push: a TypeError
                /\ Reject("TypeError", 0, "", propertyId)
                /\ UNCHANGED <<index, propertyBookings>>
           ELSE /\ propertyBookings' =
                      IF propertyId \notin OwnKeys(propertyBookings)
                      THEN Append(propertyBookings,
                                  [key |-> propertyId, bookings |-> PushBooking(<<>>, row)])
                      ELSE [k \in 1..Len(propertyBookings) |->
                              IF propertyBookings[k].key = propertyId
                              THEN [propertyBookings[k] EXCEPT
                                      !.bookings = PushBooking(@, row)]
                              ELSE propertyBookings[k]]
                /\ index' = index + 1
                /\ UNCHANGED <<pc, error>>
    /\ UNCHANGED <<rows, parsedRows, allBookings, batches, currentBatch,
                   propertyCountInBatch, usedIndices, i, batchFiles, files, summary>>

RECURSIVE Flatten(_)
\* server.js:222-227: the bookings of every entry, entry after entry
Flatten(entries) ==
    IF entries = <<>> THEN <<>>
    ELSE Head(entries).bookings \o Flatten(Tail(entries))

\* server.js:153, 220-229: generateBatches is called and builds its pool
CreatePool ==
    /\ pc = "group"
    /\ index >= Len(parsedRows)
    /\ allBookings' = Flatten(ObjectEntries(propertyBookings))
    /\ batches' = <<>>
    /\ pc' = "while"
    /\ UNCHANGED <<rows, index, parsedRows, propertyBookings, currentBatch,
                   propertyCountInBatch, usedIndices, i, batchFiles, files, error,
                   summary>>

\* server.js:231-237: the test of the while loop; a batch is started, or
\* generateBatches returns
WhileTest ==
    /\ pc = "while"
    /\ IF Len(allBookings) > 0
       THEN /\ currentBatch' = <<>>
            /\ propertyCountInBatch' = NoCounts
            /\ usedIndices' = <<>>
            /\ i' = 0
            /\ pc' = "scan"
            /\ UNCHANGED index
       ELSE /\ pc' = "write"
            /\ index' = 0
            /\ UNCHANGED <<currentBatch, propertyCountInBatch, usedIndices, i>>
    /\ UNCHANGED <<rows, parsedRows, propertyBookings, allBookings, batches,
                   batchFiles, files, error, summary>>

\* server.js:237  i < allBookings.length && currentBatch.length < 250
ScanContinues == i < Len(allBookings) /\ Len(currentBatch) < MaxBatchSize

\* a changed CanAdd: <= in place of <
CanAddOffByOne(count) == count <= MaxPerProperty

\* server.js:242  (propertyCountInBatch[propertyId] || 0) < 2
CanAdd(count) == count < MaxPerProperty

\* server.js:237-247: one iteration of the for loop
ScanStep ==
    /\ pc = "scan"
    /\ ScanContinues
    /\ LET booking    == allBookings[i + 1]
           propertyId == booking.cols[1]
       IN  IF CanAdd(CountOf(propertyCountInBatch, propertyId))
           THEN /\ currentBatch' = Append(currentBatch, booking)
                /\ propertyCountInBatch' = Increment(propertyCountInBatch, propertyId)
                /\ usedIndices' = Append(usedIndices, i)
           ELSE UNCHANGED <<currentBatch, propertyCountInBatch, usedIndices>>
    /\ i' = i + 1
    /\ UNCHANGED <<rows, pc, index, parsedRows, propertyBookings, allBookings,
                   batches, batchFiles, files, error, summary>>

\* a changed RemoveUsed: the splices in ascending order of index
RemoveUsedForward(pool, used) == SpliceEach(pool, used)

\* a changed RemoveUsed: nothing is removed
RemoveUsedNothing(pool, used) == pool

\* server.js:250-252  usedIndices.reverse().forEach(idx => allBookings.splice(idx, 1))
RemoveUsed(pool, used) == SpliceEach(pool, Reverse(used))

\* server.js:249-260: the for loop is over; the used bookings leave the pool,
\* and the batch is pushed, or the loop is left when the batch is empty
ScanEnd ==
    /\ pc = "scan"
    /\ ~ScanContinues
    /\ allBookings' = RemoveUsed(allBookings, usedIndices)
    /\ usedIndices' = Reverse(usedIndices)
    /\ IF Len(currentBatch) > 0
       THEN /\ batches' = Append(batches, currentBatch)
            /\ pc' = "while"
            /\ UNCHANGED index
       ELSE /\ pc' = "write"
            /\ index' = 0
            /\ UNCHANGED batches
    /\ UNCHANGED <<rows, parsedRows, propertyBookings, currentBatch,
                   propertyCountInBatch, i, batchFiles, files, error, summary>>

RECURSIVE PropertyCount(_)
\* server.js:182-186: the bookings of each property of a batch
PropertyCount(batch) ==
    IF batch = <<>> THEN NoCounts
    ELSE Increment(PropertyCount(SubSeq(batch, 1, Len(batch) - 1)),
                   batch[Len(batch)].cols[1])

\* Math.max(...Object.values(counts)), counts not empty
MaxValue(counts) ==
    CHOOSE m \in {counts[k] : k \in DOMAIN counts} : \A k \in DOMAIN counts : counts[k] <= m

\* server.js:163-198: the forEach callback on batches[index].  The file name
\* is `${batchName}-${minDay}-${maxDay}-${batchNum}.csv`; a file is kept here
\* under its batchNum, which alone tells the files of a job apart.
WriteBatch ==
    /\ pc = "write"
    /\ index < Len(batches)
    /\ LET batch         == batches[index + 1]
           batchNum      == PadStart2(index + 1)
           propertyCount == PropertyCount(batch)
       IN  /\ files' = Append(files,
                  [batchNum |-> batchNum,
                   content  |-> <<Header>> \o
                                [k \in 1..Len(batch) |-> Join(batch[k].cols, ",")]])
           /\ batchFiles' = Append(batchFiles,
                  [batchNum               |-> batchNum,
                   bookingCount           |-> Len(batch),
                   uniqueProperties       |-> Cardinality(DOMAIN propertyCount),
                   maxBookingsPerProperty |-> MaxValue(propertyCount)])
    /\ index' = index + 1
    /\ UNCHANGED <<rows, pc, parsedRows, propertyBookings, allBookings, batches,
                   currentBatch, propertyCountInBatch, usedIndices, i, error, summary>>

\* server.js:200-211: the promise is resolved with the result
Resolve ==
    /\ pc = "write"
    /\ index >= Len(batches)
    /\ summary' = [totalBatches     |-> Len(batches),
                   totalBookings    |-> Len(parsedRows),
                   uniqueProperties |-> Len(propertyBookings)]
    /\ pc' = "done"
    /\ UNCHANGED <<rows, index, parsedRows, propertyBookings, allBookings, batches,
                   currentBatch, propertyCountInBatch, usedIndices, i, batchFiles,
                   files, error>>

Next ==
    \/ ParseRow
    \/ StartGroup
    \/ GroupRow
    \/ CreatePool
    \/ WhileTest
    \/ ScanStep
    \/ ScanEnd
    \/ WriteBatch
    \/ Resolve

Spec == Init /\ [][Next]_vars

\* the job is neither resolved nor rejected.  In every such state exactly one
\* action of Next can be taken, and taking it changes pc, index or i: Running
\* is ENABLED <<Next>>_vars.
Running == pc \notin {"done", "rejected"}

\* processCSV runs to completion on the single thread of the event loop: a
\* step that can be taken is taken.  This is WF_vars(Next), written out with
\* Running for ENABLED <<Next>>_vars.
RunToCompletion == ([]<>~Running) \/ ([]<><<Next>>_vars)

FairSpec == Spec /\ RunToCompletion

(***************************************************************************)
(* What the properties below speak of.                                     *)
(***************************************************************************)
RECURSIVE Concat(_)
\* the records of a sequence of batches, batch after batch
Concat(bs) == IF bs = <<>> THEN <<>> ELSE Head(bs) \o Concat(Tail(bs))

Range(seq) == {seq[k] : k \in 1..Len(seq)}

RECURSIVE Sum(_)
Sum(seq) == IF seq = <<>> THEN 0 ELSE Head(seq) + Sum(Tail(seq))

\* the property key of a record
KeyOf(record) == record.cols[1]

\* the number of records of a property in a batch
BookingsOf(batch, key) == Cardinality({q \in 1..Len(batch) : KeyOf(batch[q]) = key})

\* generateBatches has been entered
Partitioning == pc \in {"while", "scan", "write", "done"}

\* the batches are as the last ScanEnd left them and no scan is under way
BetweenBatches == pc \in {"while", "write", "done"}

IsLeapYear(y) == y % 4 = 0 /\ (y % 100 # 0 \/ y % 400 = 0)

DaysInMonth(y, m) ==
    IF m = 2 THEN (IF IsLeapYear(y) THEN 29 ELSE 28)
    ELSE IF m \in {4, 6, 9, 11} THEN 30 ELSE 31

\* year y, month m, day d is a date of the calendar
IsRealDate(y, m, d) == m \in 1..12 /\ d \in 1..DaysInMonth(y, m)

\* 4 digits, 2 digits, 2 digits, joined by "-"
HasCanonicalShape(s) ==
    LET parts == Split(s, "-")
    IN  /\ Len(parts) = 3
        /\ Len(parts[1]) = 4 /\ Len(parts[2]) = 2 /\ Len(parts[3]) = 2
        /\ \A k \in 1..3 : IsDigits(parts[k])

\* s is a canonical YYYY-MM-DD string of a real date
IsRealCanonical(s) ==
    /\ HasCanonicalShape(s)
    /\ LET parts == Split(s, "-")
       IN  IsRealDate(DecimalValue(parts[1]), DecimalValue(parts[2]), DecimalValue(parts[3]))

\* s has three numeric parts joined by sep, the first of at most firstMax characters
IsThreePart(s, sep, firstMax) ==
    LET parts == Split(s, sep)
    IN  /\ Len(parts) = 3
        /\ Len(parts[1]) <= firstMax
        /\ \A k \in 1..3 : parts[k] # "" /\ IsDigits(parts[k])

\* a slash-delimited a/b/y, or a dash-delimited a-b-y with a of at most 2 characters
IsAlternateLayout(s) ==
    \/ IsThreePart(s, "/", Len(s))
    \/ (~HasCanonicalShape(s) /\ ~Includes(s, "/") /\ IsThreePart(s, "-", 2))

AlternateParts(s) == IF Includes(s, "/") THEN Split(s, "/") ELSE Split(s, "-")

DayFirstIsReal(s) ==
    LET parts == AlternateParts(s)
    IN  IsRealDate(DecimalValue(parts[3]), DecimalValue(parts[2]), DecimalValue(parts[1]))

MonthFirstIsReal(s) ==
    LET parts == AlternateParts(s)
    IN  IsRealDate(DecimalValue(parts[3]), DecimalValue(parts[1]), DecimalValue(parts[2]))

\* the value, quotes and surrounding blanks stripped, denotes a real date of
\* the calendar under one of the recognized layouts
DenotesRealDate(value) ==
    LET s == Trim(RemoveChars(value, {"'", "\""}))
    IN  \/ IsRealCanonical(s)
        \/ (IsAlternateLayout(s) /\ (DayFirstIsReal(s) \/ MonthFirstIsReal(s)))

\* YYYY-MM-DD of a four-digit year y and numeric month m and day d
Canonical(y, m, d) == y \o "-" \o PadStart2(DecimalValue(m)) \o "-" \o PadStart2(DecimalValue(d))

\* the columns of data line k as uploaded
RawColumns(k) == Split(rows[k], ",")

\* data line k has a check-in and a check-out field that are validated
HasDates(k) == Len(RawColumns(k)) > 2

\* the fields of a record that hold a check-in (2) and a check-out (3)
DateFields == {2, 3}

FieldName(f) == IF f = 2 THEN "checkin" ELSE "checkout"

(***************************************************************************)
(* C1  Coverage: from the moment the pool is built, the records of the     *)
(* pool together with the records of the emitted batches are exactly the   *)
(* input records, each once; when generateBatches has returned, the        *)
(* batches alone are; and the bookingCount of the batches sum to           *)
(* summary.totalBookings, the number of input rows.                        *)
(***************************************************************************)
C1_Coverage ==
    /\ Partitioning =>
          /\ Len(parsedRows) = Len(rows)
          /\ \A k \in 1..Len(parsedRows) : parsedRows[k].line = k
          /\ Len(allBookings) + Len(Concat(batches)) = Len(parsedRows)
          /\ Range(allBookings) \cup Range(Concat(batches)) = Range(parsedRows)
    /\ pc \in {"write", "done"} => allBookings = <<>>
    /\ pc = "done" =>
          /\ Len(batchFiles) = Len(batches)
          /\ Sum([k \in 1..Len(batchFiles) |-> batchFiles[k].bookingCount])
                = summary.totalBookings
          /\ summary.totalBookings = Len(rows)

\* a job of several batches has been resolved
C1_Witness ==
    /\ pc = "done"
    /\ Len(batches) >= 2
    /\ \E b \in 1..Len(batches) : Len(batches[b]) >= 2

(***************************************************************************)
(* C2  Limits: every emitted batch holds at most the batch-size limit      *)
(* (250 in the code, 1000 in the README) and at most 2 bookings of any     *)
(* property, and every reported maxBookingsPerProperty is at most 2.       *)
(***************************************************************************)
C2_Limits ==
    /\ BetweenBatches =>
          \A b \in 1..Len(batches) :
              /\ Len(batches[b]) <= MaxBatchSize
              /\ Len(batches[b]) <= ReadmeMaxBatchSize
              /\ \A q \in 1..Len(batches[b]) :
                    BookingsOf(batches[b], KeyOf(batches[b][q])) <= ReadmeMaxPerProperty
    /\ \A k \in 1..Len(batchFiles) :
          /\ batchFiles[k].maxBookingsPerProperty <= ReadmeMaxPerProperty
          /\ batchFiles[k].bookingCount <= ReadmeMaxBatchSize

\* a batch was closed full, with a property at its limit, and more followed
C2_Witness ==
    /\ pc = "done"
    /\ Len(batches) >= 2
    /\ Len(batches[1]) = MaxBatchSize
    /\ BookingsOf(batches[1], KeyOf(batches[1][1])) = MaxPerProperty
    /\ batchFiles[1].maxBookingsPerProperty = MaxPerProperty

(***************************************************************************)
(* C3  Termination: a ScanEnd that emits a batch leaves the pool strictly  *)
(* smaller, a ScanEnd with an empty batch leaves the loop without emitting *)
(* anything, and every job ends, resolved or rejected.  (The limits are    *)
(* the literals 250 and 2 of generateBatches.)                             *)
(***************************************************************************)
C3_Terminates ==
    /\ [][(pc = "scan" /\ pc' = "while") =>
             (Len(batches') = Len(batches) + 1 /\ Len(allBookings') < Len(allBookings))]_vars
    /\ [][(pc = "scan" /\ pc' # "scan" /\ currentBatch = <<>>) =>
             (pc' = "write" /\ batches' = batches)]_vars
    /\ <>(pc \in {"done", "rejected"})

\* a job that took three turns of the while loop and more has been resolved
C3_Witness ==
    /\ pc = "done"
    /\ Len(batches) >= 3
    /\ allBookings = <<>>

(***************************************************************************)
(* C4  Invalid dates are rejected: a validated field that is not blank and *)
(* does not denote a real date of the calendar under any recognized layout *)
(* never gets through validateAndFormatDate.                               *)
(***************************************************************************)
C4_InvalidDateRejected ==
    \A k \in 1..Len(parsedRows) :
        HasDates(k) =>
            \A f \in DateFields :
                Trim(RawColumns(k)[f]) # "" => DenotesRealDate(RawColumns(k)[f])

(***************************************************************************)
(* C5  Day-first, then month-first: a returned a/b/y (or a-b-y) value of a *)
(* four-digit year is the date of day a and month b when that is a real    *)
(* date, and the date of month a and day b when only that is one.          *)
(***************************************************************************)
C5_DayFirstThenMonthFirst ==
    \A k \in 1..Len(parsedRows) :
        HasDates(k) =>
            \A f \in DateFields :
                LET s     == Trim(RemoveChars(RawColumns(k)[f], {"'", "\""}))
                    parts == AlternateParts(s)
                    out   == parsedRows[k].cols[f]
                IN  (IsAlternateLayout(s) /\ Len(parts[3]) = 4) =>
                        /\ DayFirstIsReal(s) =>
                              out = Canonical(parts[3], parts[2], parts[1])
                        /\ (~DayFirstIsReal(s) /\ MonthFirstIsReal(s)) =>
                              out = Canonical(parts[3], parts[1], parts[2])

(***************************************************************************)
(* C6  Canonical shape: every check-in and check-out value that            *)
(* validateAndFormatDate returned, and every field 1 and field 2 of a      *)
(* record of an emitted batch, has the shape YYYY-MM-DD.                   *)
(***************************************************************************)
C6_CanonicalShape ==
    /\ \A k \in 1..Len(parsedRows) :
          HasDates(k) => \A f \in DateFields : HasCanonicalShape(parsedRows[k].cols[f])
    /\ \A b \in 1..Len(batches) :
          \A q \in 1..Len(batches[b]) :
              \A f \in DateFields :
                  f <= Len(batches[b][q].cols) => HasCanonicalShape(batches[b][q].cols[f])

(***************************************************************************)
(* C7  Fail-fast: when a data row of at least 3 fields has a blank or      *)
(* invalid check-in or check-out value, the job is rejected with the error *)
(* of the first such row and field (row number = index + 2), no row at or  *)
(* after it is accepted, no batch is generated and no file is written.     *)
(***************************************************************************)
BadField(k, f) ==
    \/ Trim(RawColumns(k)[f]) = ""
    \/ ~DenotesRealDate(RawColumns(k)[f])

BadRow(k) == HasDates(k) /\ \E f \in DateFields : BadField(k, f)

C7_FailFast ==
    (\E k \in 1..Len(rows) : BadRow(k)) =>
        LET first == CHOOSE k \in 1..Len(rows) :
                        BadRow(k) /\ \A j \in 1..(k - 1) : ~BadRow(j)
            field == IF BadField(first, 2) THEN 2 ELSE 3
        IN  /\ pc \in {"parse", "rejected"}
            /\ Len(parsedRows) < first
            /\ pc = "rejected" =>
                  /\ error.kind \in {"empty", "invalid", "unable"}
                  /\ error.row = first + 1
                  /\ error.field = FieldName(field)
            /\ batches = <<>>
            /\ batchFiles = <<>>
            /\ files = <<>>

(***************************************************************************)
(* The part of C7 that is about processCSV alone: the same statement for   *)
(* the rows whose field validateAndFormatDate does throw on.               *)
(***************************************************************************)
ThrowingRow(k) ==
    HasDates(k) /\ \E f \in DateFields : ~validateAndFormatDate(RawColumns(k)[f]).ok

FailFastOnThrow ==
    (\E k \in 1..Len(rows) : ThrowingRow(k)) =>
        LET first == CHOOSE k \in 1..Len(rows) :
                        ThrowingRow(k) /\ \A j \in 1..(k - 1) : ~ThrowingRow(j)
            field == IF ~validateAndFormatDate(RawColumns(first)[2]).ok THEN 2 ELSE 3
        IN  /\ pc \in {"parse", "rejected"}
            /\ Len(parsedRows) < first
            /\ pc = "rejected" =>
                  /\ error.row = first + 1
                  /\ error.field = FieldName(field)
            /\ batches = <<>>
            /\ batchFiles = <<>>
            /\ files = <<>>

(***************************************************************************)
(* C8  As claimed: the records of a batch are in the order of the input.   *)
(* (The order is transitive, so it is stated for neighbours.)              *)
(***************************************************************************)
C8_InputOrder ==
    BetweenBatches =>
        \A b \in 1..Len(batches) :
            \A q \in 1..(Len(batches[b]) - 1) :
                batches[b][q].line < batches[b][q + 1].line

\* the first input row of a property
FirstRowOf(key) ==
    CHOOSE k \in 1..Len(parsedRows) :
        /\ KeyOf(parsedRows[k]) = key
        /\ \A j \in 1..(k - 1) : KeyOf(parsedRows[j]) # key

\* the order of the groups: the array-index keys by their number, then the
\* other keys by their first row
GroupPrecedes(key1, key2) ==
    IF IsArrayIndex(key1) /\ IsArrayIndex(key2)
    THEN DecimalValue(key1) < DecimalValue(key2)
    ELSE IF IsArrayIndex(key1) # IsArrayIndex(key2) THEN IsArrayIndex(key1)
    ELSE FirstRowOf(key1) < FirstRowOf(key2)

\* r1 comes before r2 in the order grouped by property
GroupedBefore(r1, r2) ==
    IF KeyOf(r1) = KeyOf(r2) THEN r1.line < r2.line
    ELSE GroupPrecedes(KeyOf(r1), KeyOf(r2))

(***************************************************************************)
(* C8  As amended: the pool and every batch hold their records grouped by  *)
(* property: the properties with an array-index key in ascending numeric   *)
(* order, then the other properties in the order of their first row, the   *)
(* records of one property in the order of the input.  (The order is       *)
(* transitive, so it is stated for neighbours.)                            *)
(***************************************************************************)
C8_GroupedOrder ==
    BetweenBatches =>
        /\ \A q \in 1..(Len(allBookings) - 1) :
              GroupedBefore(allBookings[q], allBookings[q + 1])
        /\ \A b \in 1..Len(batches) :
              \A q \in 1..(Len(batches[b]) - 1) :
                  GroupedBefore(batches[b][q], batches[b][q + 1])

\* a batch holds a later row before an earlier one: its properties are in
\* the order of the groups, not of the input
C8_Witness ==
    /\ pc = "done"
    /\ \E b \in 1..Len(batches) :
          \E q \in 1..(Len(batches[b]) - 1) :
              /\ batches[b][q].line > batches[b][q + 1].line
              /\ IsArrayIndex(KeyOf(batches[b][q]))
              /\ ~IsArrayIndex(KeyOf(batches[b][q + 1]))

(***************************************************************************)
(* C9  Greedy maximality as the README states it: right after a batch of   *)
(* fewer than 1000 bookings is emitted, every booking left in the pool is  *)
(* of a property that has 2 bookings in that batch.                        *)
(***************************************************************************)
C9_GreedyMaximal ==
    (pc = "while" /\ batches # <<>>) =>
        LET last == batches[Len(batches)]
        IN  Len(last) < ReadmeMaxBatchSize =>
                \A p \in 1..Len(allBookings) :
                    BookingsOf(last, KeyOf(allBookings[p])) = ReadmeMaxPerProperty

(***************************************************************************)
(* C10  First in, first out per property: of two records of one property,  *)
(* the earlier input row is in an earlier batch, or earlier in the same    *)
(* batch, and never still in the pool when the later one is placed; and a  *)
(* ScanEnd leaves in the pool, in their order, the records it did not      *)
(* place.                                                                  *)
(***************************************************************************)
C10_FifoPerProperty ==
    /\ [](BetweenBatches =>
            LET order == Concat(batches) \o allBookings
            IN  \A p \in 1..Len(order) : \A q \in (p + 1)..Len(order) :
                    KeyOf(order[p]) = KeyOf(order[q]) => order[p].line < order[q].line)
    /\ [][(pc = "scan" /\ pc' # "scan") =>
             allBookings' = SelectSeq(allBookings, LAMBDA r : r \notin Range(currentBatch))]_vars

\* a property was drained over several batches, another one beside it
C10_Witness ==
    /\ pc = "done"
    /\ Len(batches) >= 2
    /\ \E p \in 1..Len(batches[1]) : \E q \in 1..Len(batches[2]) :
          KeyOf(batches[1][p]) = KeyOf(batches[2][q])
    /\ \E p \in 1..Len(batches[1]) : KeyOf(batches[1][p]) # KeyOf(batches[1][1])

====
